---------------------------- MODULE Spec2Model ----------------------------
(***************************************************************************)
(* The route table of deno-spring (src/router.ts): class Router, one Radix *)
(* tree per request method, and the list of registered routes.             *)
(*                                                                         *)
(* A string is a sequence of one-character strings.  A tree is an arena:   *)
(* a sequence of nodes, node 1 the root, a node's children a function from *)
(* the key character to the child's index (0: no child under that key).    *)
(* A handler is a positive number (a function object's identity), 0 the    *)
(* JavaScript undefined.                                                   *)
(***************************************************************************)
EXTENDS Naturals, Sequences, FiniteSets, TLC

(***************************************************************************)
(* Bounds of the model.                                                    *)
(***************************************************************************)
\* add calls in one behaviour of Spec
MaxAdds == 2
\* length of the paths handed to find
MaxPathLen == 4

(***************************************************************************)
(* Alphabets.                                                              *)
(***************************************************************************)
Chars == {"/", "a", "b", ":", "*"}
PathChars == {"/", "a", "b"}

\* The methods routes are registered under.
Methods == {"GET", "POST"}
\* Own keys of radixGroup are methods; "constructor" is a key every object
\* literal inherits from Object.prototype.
ObjectPrototypeKeys == {"constructor"}
FindMethods == Methods \cup ObjectPrototypeKeys

NoHandler == 0

(***************************************************************************)
(* The state: a Router and the last call made on it, the static fields of  *)
(* App, and the requests the Server is handling.                           *)
(***************************************************************************)
VARIABLES
    radixGroup,   \* Router.radixGroup: method -> tree, <<>> when the key is absent
    routes,       \* Router._routes, each with its params field
    call,         \* the last call made on the router and how it ended
    ret,          \* what the last find returned: an index into routes, 0 for undefined
    nadds,        \* the add calls made so far
    constructors, \* App.constructors, in insertion order, with their decorators
    middlewares,  \* App.middlewares
    errorHandler, \* App.errorHandler, 0 for undefined
    appRoutes,    \* App.routes
    composed,     \* the calls of App.compose so far and how the last one ended
    requests,     \* the requests handleRequest was called for, in arrival order
    cache,        \* Engine.cache: file -> renderer, 0 when the key is absent
    views,        \* the calls of Engine.view, in call order
    loaded,       \* file -> how often view has read it from disk
    compiled      \* file -> how often view has compiled it

routerVars == <<radixGroup, routes, call, ret, nadds>>
appVars == <<constructors, middlewares, errorHandler, appRoutes, composed>>
engineVars == <<cache, views, loaded, compiled>>
vars == <<routerVars, appVars, requests, engineVars>>

(***************************************************************************)
(* String helpers: JavaScript's 0-based s[i] and s.slice(a, b).            *)
(***************************************************************************)
At(s, i) == s[i + 1]
Slice(s, a, b) == SubSeq(s, a + 1, b)
SliceFrom(s, a) == SubSeq(s, a + 1, Len(s))
Min(a, b) == IF a < b THEN a ELSE b

isWildcard(c) == c = ":" \/ c = "*"

RECURSIVE lcpFrom(_, _, _)
lcpFrom(a, b, i) ==
    IF i < Min(Len(a), Len(b)) /\ At(a, i) = At(b, i)
    THEN lcpFrom(a, b, i + 1)
    ELSE i

longestCommonPrefix(a, b) == lcpFrom(a, b, 0)

RECURSIVE slashFrom(_, _)
slashFrom(path, i) ==
    IF i < Len(path) /\ At(path, i) # "/" THEN slashFrom(path, i + 1) ELSE i

\* [cp, np]: the run up to the first slash, and the rest from that slash on
splitFromFirstSlash(path) ==
    LET i == slashFrom(path, 0)
    IN  [cp |-> Slice(path, 0, i), np |-> SliceFrom(path, i)]

(***************************************************************************)
(* Radix nodes.                                                            *)
(***************************************************************************)
NoChildren == [k \in Chars |-> 0]

Radix(path, children, handler) ==
    [path |-> path, children |-> children, handler |-> handler]

\* new Radix(): path "", no children, no handler
NewRadix == <<Radix(<<>>, NoChildren, NoHandler)>>

ChildrenSize(node) == Cardinality({k \in Chars : node.children[k] # 0})

\* What a step of add returns: the tree as it is now, the node reached, and
\* "ok" or the error thrown.
Step(T, n, err) == [T |-> T, n |-> n, err |-> err]

(***************************************************************************)
(* Radix.merge, lines 200-257.                                             *)
(***************************************************************************)
\* split leaving the handler on the node that is split
splitKeepsHandler(T, n, path, i) ==
    LET cnode == Radix(SliceFrom(T[n].path, i), T[n].children, T[n].handler)
    IN  Append([T EXCEPT ![n] =
                   Radix(Slice(path, 0, i),
                         [NoChildren EXCEPT ![cnode.path[1]] = Len(T) + 1],
                         T[n].handler)],
               cnode)

\* lines 222-232: node n gives what lies after the first i characters of
\* its label, with its children and its handler, to a new child
split(T, n, path, i) ==
    LET cnode == Radix(SliceFrom(T[n].path, i), T[n].children, T[n].handler)
    IN  Append([T EXCEPT ![n] =
                   Radix(Slice(path, 0, i),
                         [NoChildren EXCEPT ![cnode.path[1]] = Len(T) + 1],
                         NoHandler)],
               cnode)

RECURSIVE mergeLoop(_, _, _, _)
mergeLoop(T, n, path, handler) ==
    LET i  == longestCommonPrefix(path, T[n].path)
        T1 == IF i < Len(T[n].path) THEN split(T, n, path, i) ELSE T
    IN  IF i < Len(path)
        THEN LET p2 == SliceFrom(path, i)
                 ch == T1[n].children[p2[1]]
                 nw == Len(T1) + 1
             IN  IF ch # 0
                 THEN mergeLoop(T1, ch, p2, handler)
                 ELSE Step(Append([T1 EXCEPT ![n].children[p2[1]] = nw],
                                  Radix(p2, NoChildren, handler)),
                           nw, "ok")
        ELSE IF handler # NoHandler
             THEN IF T1[n].handler # NoHandler
                  THEN Step(T1, n, "duplicate")
                  ELSE Step([T1 EXCEPT ![n].handler = handler], n, "ok")
             ELSE Step(T1, n, "ok")

\* merge with the check of line 210 left out: the handler is overwritten
mergeOverwrite(T, n, path, handler) ==
    IF T[n].path = <<>> /\ ChildrenSize(T[n]) = 0
    THEN Step([T EXCEPT ![n].path = path, ![n].handler = handler], n, "ok")
    ELSE IF path = <<>>
         THEN Step([T EXCEPT ![n].handler = handler], n, "ok")
         ELSE mergeLoop(T, n, path, handler)

merge(T, n, path, handler) ==
    IF T[n].path = <<>> /\ ChildrenSize(T[n]) = 0
    THEN Step([T EXCEPT ![n].path = path, ![n].handler = handler], n, "ok")
    ELSE IF path = <<>>
         THEN IF T[n].handler # NoHandler
              THEN Step(T, n, "duplicate")
              ELSE Step([T EXCEPT ![n].handler = handler], n, "ok")
         ELSE mergeLoop(T, n, path, handler)

(***************************************************************************)
(* Radix.insert, lines 259-271.                                            *)
(***************************************************************************)
\* insert putting a new node in the place of the child it finds
insertReplace(T, n, path, handler) ==
    LET nw == Len(T) + 1
    IN  Step(Append([T EXCEPT ![n].children[path[1]] = nw],
                    Radix(path, NoChildren, handler)),
             nw, "ok")

insert(T, n, path, handler) ==
    LET c  == T[n].children[path[1]]
        nw == Len(T) + 1
    IN  IF c # 0
        THEN merge(T, c, path, handler)
        ELSE Step(Append([T EXCEPT ![n].children[path[1]] = nw],
                         Radix(path, NoChildren, handler)),
                  nw, "ok")

(***************************************************************************)
(* Radix.add, lines 75-119.                                                *)
(***************************************************************************)
RECURSIVE wildcardFrom(_, _)
\* line 79: the first index from i on that holds a marker, or the length
wildcardFrom(path, i) ==
    IF i < Len(path) /\ ~isWildcard(At(path, i))
    THEN wildcardFrom(path, i + 1)
    ELSE i

RECURSIVE segmentScanStarOnly(_, _)
\* segmentScan taking only '*' for a second marker
segmentScanStarOnly(path, i) ==
    IF i < Len(path) /\ At(path, i) # "/"
    THEN IF At(path, i) = "*"
         THEN [i |-> i, conflict |-> TRUE]
         ELSE segmentScanStarOnly(path, i + 1)
    ELSE [i |-> i, conflict |-> FALSE]

RECURSIVE segmentScan(_, _)
\* lines 93-100: from i to the next slash or the end, stopping at a second
\* marker met on the way (the throw of line 95)
segmentScan(path, i) ==
    IF i < Len(path) /\ At(path, i) # "/"
    THEN IF isWildcard(At(path, i))
         THEN [i |-> i, conflict |-> TRUE]
         ELSE segmentScan(path, i + 1)
    ELSE [i |-> i, conflict |-> FALSE]

\* emptyName with the length test off by one
emptyNameOffByOne(path, j, i) == At(path, j) = ":" /\ i - j = 0

\* line 102: the marker at j is ':' and the scan ended right after it
emptyName(path, j, i) == At(path, j) = ":" /\ i - j = 1

RECURSIVE addLoop(_, _, _, _, _, _)
\* the for loop of lines 83-112 from index i on, then lines 114-118
addLoop(T, n, path, i, j, handler) ==
    IF i >= Len(path)
    THEN IF j = Len(path)
         THEN merge(T, n, <<>>, handler)
         ELSE insert(T, n, SliceFrom(path, j), handler)
    ELSE IF ~isWildcard(At(path, i))
    THEN addLoop(T, n, path, i + 1, j, handler)
    ELSE LET s1 == IF j # i
                   THEN insert(T, n, Slice(path, j, i), NoHandler)
                   ELSE Step(T, n, "ok")
             sc == segmentScan(path, i + 1)
         IN  IF s1.err # "ok" THEN s1
             ELSE IF sc.conflict THEN Step(s1.T, s1.n, "conflict")
             ELSE IF emptyName(path, i, sc.i)
                  THEN Step(s1.T, s1.n, "emptyname")
             ELSE LET s2 == insert(s1.T, s1.n, Slice(path, i, sc.i), NoHandler)
                  IN  IF s2.err # "ok" THEN s2
                      ELSE addLoop(s2.T, s2.n, path, sc.i + 1, sc.i, handler)

RadixAdd(T, path, handler) ==
    LET i  == wildcardFrom(path, 0)
        s0 == merge(T, 1, Slice(path, 0, i), NoHandler)
    IN  IF s0.err # "ok" THEN s0
        ELSE addLoop(s0.T, s0.n, path, i, i, handler)

(***************************************************************************)
(* Radix.find, lines 121-198.  params is a Map: a set of <<name, value>>   *)
(* pairs with one value per name.                                          *)
(***************************************************************************)
MapSet(params, k, v) == {e \in params : e[1] # k} \cup {<<k, v>>}
MapDelete(params, k) == {e \in params : e[1] # k}

First(s) == IF s = <<>> THEN "" ELSE s[1]

\* stack[++i] = e: the array keeps what lies above i until it is overwritten
Push(stack, i, e) ==
    IF i + 1 <= Len(stack) THEN [stack EXCEPT ![i + 1] = e] ELSE Append(stack, e)

Entry(n, p) == [n |-> n, p |-> p, v |-> FALSE]

\* pushChildren with the parameter child pushed after the static child, and
\* so tried before it
pushChildrenParamFirst(T, n, np, stack, i) ==
    LET cw == T[n].children["*"]
        s1 == IF cw # 0 THEN Push(stack, i, Entry(cw, np)) ELSE stack
        i1 == IF cw # 0 THEN i + 1 ELSE i
    IN  IF np = <<>> THEN [stack |-> s1, i |-> i1]
        ELSE LET cs == T[n].children[np[1]]
                 s2 == IF cs # 0 THEN Push(s1, i1, Entry(cs, np)) ELSE s1
                 i2 == IF cs # 0 THEN i1 + 1 ELSE i1
                 cp == T[n].children[":"]
                 s3 == IF cp # 0 THEN Push(s2, i2, Entry(cp, np)) ELSE s2
                 i3 == IF cp # 0 THEN i2 + 1 ELSE i2
             IN  [stack |-> s3, i |-> i3]

\* lines 177-194: the children tried for the rest np of the path; the one
\* pushed last is the one visited first
pushChildren(T, n, np, stack, i) ==
    LET cw == T[n].children["*"]
        s1 == IF cw # 0 THEN Push(stack, i, Entry(cw, np)) ELSE stack
        i1 == IF cw # 0 THEN i + 1 ELSE i
    IN  IF np = <<>> THEN [stack |-> s1, i |-> i1]
        ELSE LET cp == T[n].children[":"]
                 s2 == IF cp # 0 THEN Push(s1, i1, Entry(cp, np)) ELSE s1
                 i2 == IF cp # 0 THEN i1 + 1 ELSE i1
                 cs == T[n].children[np[1]]
                 s3 == IF cs # 0 THEN Push(s2, i2, Entry(cs, np)) ELSE s2
                 i3 == IF cs # 0 THEN i2 + 1 ELSE i2
             IN  [stack |-> s3, i |-> i3]

\* np of lines 130-170: "fail" (the --i; continue of lines 156 and 165),
\* "end" (np undefined) or "more" with the rest of the path
nextPath(node, p) ==
    IF First(node.path) = "*" THEN [k |-> "end", np |-> <<>>]
    ELSE IF First(node.path) = ":"
    THEN LET sp == splitFromFirstSlash(p)
         IN  IF sp.np = <<>> THEN [k |-> "end", np |-> <<>>]
             ELSE [k |-> "more", np |-> sp.np]
    ELSE IF node.path = p
    THEN IF node.handler = NoHandler
         THEN IF node.children["*"] # 0 THEN [k |-> "more", np |-> <<>>]
              ELSE [k |-> "fail", np |-> <<>>]
         ELSE [k |-> "end", np |-> <<>>]
    ELSE LET lcp == longestCommonPrefix(node.path, p)
         IN  IF lcp # Len(node.path) THEN [k |-> "fail", np |-> <<>>]
             ELSE [k |-> "more", np |-> SliceFrom(p, lcp)]

\* bind with the wildcard capturing one segment, as a parameter does
bindToSlash(node, p, params) ==
    IF First(node.path) = "*"
    THEN IF Len(node.path) > 1
         THEN MapSet(params, Tail(node.path), splitFromFirstSlash(p).cp)
         ELSE params
    ELSE IF First(node.path) = ":"
    THEN MapSet(params, Tail(node.path), splitFromFirstSlash(p).cp)
    ELSE params

\* lines 142-150: the binding a node makes when it is visited
bind(node, p, params) ==
    IF First(node.path) = "*"
    THEN IF Len(node.path) > 1 THEN MapSet(params, Tail(node.path), p) ELSE params
    ELSE IF First(node.path) = ":"
    THEN MapSet(params, Tail(node.path), splitFromFirstSlash(p).cp)
    ELSE params

\* lines 132-137: leaving a node that was visited before
unbind(node, params) ==
    IF First(node.path) = ":" THEN MapDelete(params, Tail(node.path)) ELSE params

Found(handler, params, visited) ==
    [handler |-> handler, params |-> params, visited |-> visited]

RECURSIVE findLoop(_, _, _, _, _)
\* the loop of lines 128-195; i counts from 1, visited lists the nodes in
\* the order they were first entered
findLoop(T, stack, i, params, visited) ==
    IF i < 1 THEN Found(NoHandler, params, visited)
    ELSE LET e == stack[i]
             node == T[e.n]
         IN  IF e.v
             THEN findLoop(T, stack, i - 1, unbind(node, params), visited)
             ELSE LET st == [stack EXCEPT ![i].v = TRUE]
                      ps == bind(node, e.p, params)
                      nx == nextPath(node, e.p)
                      vs == Append(visited, e.n)
                  IN  IF nx.k = "fail" THEN findLoop(T, st, i - 1, ps, vs)
                      ELSE IF nx.k = "end" THEN Found(node.handler, ps, vs)
                      ELSE LET pc == pushChildren(T, e.n, nx.np, st, i)
                           IN  findLoop(T, pc.stack, pc.i, ps, vs)

\* RadixFind with one params Map kept between the calls: a call starts with
\* the bindings the call before it returned
RadixFindSharedParams(T, path) ==
    findLoop(T, <<Entry(1, path)>>, 1,
             IF ret # 0 THEN routes[ret].params ELSE {}, <<>>)

RadixFind(T, path) == findLoop(T, <<Entry(1, path)>>, 1, {}, <<>>)

(***************************************************************************)
(* Router, lines 8-58.                                                     *)
(***************************************************************************)
\* The patterns handed to add.
Patterns ==
    { <<"/", "a">>, <<"/", "a", "b">>, <<"/", "a", "/", "b">>,
      <<"/", ":", "a">>, <<"/", ":", "b">>, <<"/", ":", "a", "/", "b">>,
      <<"/", "a", "/", ":", "b">>,
      <<"/", "*", "a">>, <<"/", "*">>, <<"/", "a", "/", "*", "b">>,
      <<"/", "*", "a", "/", "b">>,
      <<"/", ":">>, <<"/", "a", "/", ":">>, <<"/", ":", "/", "a">>,
      <<"/", "*", "a", "*", "b">>, <<"/", ":", "a", ":">> }

RECURSIVE SeqsOver(_, _)
\* the sequences over S of length at most n
SeqsOver(S, n) ==
    IF n = 0 THEN {<<>>}
    ELSE LET shorter == SeqsOver(S, n - 1)
         IN  shorter \cup {Append(s, c) : s \in shorter, c \in S}

\* The paths handed to find: a request path starts with a slash.
Paths == {p \in SeqsOver(PathChars, MaxPathLen) : p # <<>> /\ p[1] = "/"}

Route(method, path, callback) ==
    [method |-> method, path |-> path, callback |-> callback, params |-> {}]

\* the handler of a route compose() builds is a fresh bound function
FreshHandler == Len(routes) + 1

\* the template files of the views directory; index.html includes a partial
Files == {"index.html", "plain.html"}
HasPartial(file) == file = "index.html"

\* engine.ts line 34: the engine of a new Server, its cache empty
NewEngine ==
    /\ cache = [f \in Files |-> 0]
    /\ views = <<>>
    /\ loaded = [f \in Files |-> 0]
    /\ compiled = [f \in Files |-> 0]

Init ==
    /\ radixGroup = [m \in Methods |-> <<>>]
    /\ routes = <<>>
    /\ call = [op |-> "none"]
    /\ ret = 0
    /\ nadds = 0
    /\ constructors = <<>>
    /\ middlewares = <<>>
    /\ errorHandler = 0
    /\ appRoutes = <<>>
    /\ composed = [n |-> 0, result |-> "none"]
    /\ requests = <<>>
    /\ NewEngine

\* routerAdd with one tree for all the methods
routerAddOneTree(group, rs, method, path, callback) ==
    LET T0 == IF group[method] = <<>> THEN NewRadix ELSE group[method]
        r  == RadixAdd(T0, path, callback)
    IN  [group  |-> [m \in Methods |-> r.T],
         routes |-> IF r.err = "ok"
                    THEN Append(rs, Route(method, path, callback))
                    ELSE rs,
         err    |-> r.err]

\* Router.add, lines 24-32, as a function of the state: the tree is created
\* and changed before the route is pushed, and stays as the throw left it
routerAdd(group, rs, method, path, callback) ==
    LET T0 == IF group[method] = <<>> THEN NewRadix ELSE group[method]
        r  == RadixAdd(T0, path, callback)
    IN  [group  |-> [group EXCEPT ![method] = r.T],
         routes |-> IF r.err = "ok"
                    THEN Append(rs, Route(method, path, callback))
                    ELSE rs,
         err    |-> r.err]

RouterAdd(method, path, callback) ==
    LET a == routerAdd(radixGroup, routes, method, path, callback)
    IN  /\ radixGroup' = a.group
        /\ routes' = a.routes
        /\ call' = [op |-> "add", method |-> method, path |-> path,
                    callback |-> callback, result |-> a.err]
        /\ ret' = 0
        /\ nadds' = nadds + 1
        /\ UNCHANGED <<appVars, requests, engineVars>>

\* this.radixGroup[method]: an own key's tree, a value inherited from
\* Object.prototype, or undefined
Lookup(group, method) ==
    IF method \in DOMAIN group /\ group[method] # <<>>
    THEN [k |-> "radix", T |-> group[method]]
    ELSE IF method \in ObjectPrototypeKeys THEN [k |-> "inherited", T |-> <<>>]
    ELSE [k |-> "undefined", T |-> <<>>]

\* _routes.find(v => v.callback === callback): the first such index, or 0
RouteOf(rs, callback) ==
    LET S == {i \in 1..Len(rs) : rs[i].callback = callback}
    IN  IF S = {} THEN 0 ELSE CHOOSE i \in S : \A j \in S : i <= j

\* Router.find, lines 40-56, as a function of the state: the routes after
\* the call, the route returned, and whether the call raised
routerFind(group, rs, method, path) ==
    LET radix == Lookup(group, method)
    IN  IF radix.k = "undefined" THEN [routes |-> rs, ret |-> 0, raised |-> FALSE]
        ELSE IF radix.k = "inherited" THEN [routes |-> rs, ret |-> 0, raised |-> TRUE]
        ELSE LET f == RadixFind(radix.T, path)
                 r == IF f.handler # NoHandler THEN RouteOf(rs, f.handler) ELSE 0
             IN  IF r = 0 THEN [routes |-> rs, ret |-> 0, raised |-> FALSE]
                 ELSE [routes |-> [rs EXCEPT ![r].params = f.params],
                       ret |-> r, raised |-> FALSE]

RouterFind(method, path) ==
    LET f == routerFind(radixGroup, routes, method, path)
    IN  /\ routes' = f.routes
        /\ ret' = f.ret
        /\ call' = [op |-> "find", method |-> method, path |-> path,
                    result |-> IF f.raised THEN "raised" ELSE "returned"]
        /\ UNCHANGED <<radixGroup, nadds, appVars, requests, engineVars>>

\* The add calls of the models: every pattern under GET, and a static, a
\* parameter and a wildcard pattern under POST.
PostPatterns == {<<"/", "a">>, <<"/", ":", "a">>, <<"/", "*", "a">>}
Registrations ==
    {<<"GET", p>> : p \in Patterns} \cup {<<"POST", p>> : p \in PostPatterns}

\* Spec: the registration phase (at most MaxAdds calls of add), then one
\* request.
Add ==
    /\ call.op # "find"
    /\ nadds < MaxAdds
    /\ \E r \in Registrations : RouterAdd(r[1], r[2], FreshHandler)

Find ==
    /\ call.op # "find"
    /\ \E m \in FindMethods, p \in Paths : RouterFind(m, p)

Next == Add \/ Find

Spec == Init /\ [][Next]_vars

(***************************************************************************)
(* SpecReg: the registration phase alone, one add call longer.             *)
(***************************************************************************)
MaxRegs == 3

Register ==
    /\ nadds < MaxRegs
    /\ \E r \in Registrations : RouterAdd(r[1], r[2], FreshHandler)

SpecReg == Init /\ [][Register]_vars

(***************************************************************************)
(* SpecOrder: the registration phases whose orders are compared.           *)
(***************************************************************************)
MaxOrderAdds == 2

OrderAdd ==
    /\ nadds < MaxOrderAdds
    /\ \E r \in Registrations : RouterAdd(r[1], r[2], FreshHandler)

SpecOrder == Init /\ [][OrderAdd]_vars

(***************************************************************************)
(* SpecSyntax: add calls with every pattern of one or two segments over    *)
(* a letter and the two markers.                                           *)
(***************************************************************************)
MaxSegLen == 2
MaxSynAdds == 1

Segs == SeqsOver({"a", ":", "*"}, MaxSegLen)
SynPatterns ==
    {<<"/">> \o s : s \in Segs} \cup {<<"/">> \o s \o <<"/">> \o t : s, t \in Segs}

SynAdd ==
    /\ nadds < MaxSynAdds
    /\ \E p \in SynPatterns : RouterAdd("GET", p, FreshHandler)

SpecSyntax == Init /\ [][SynAdd]_vars

(***************************************************************************)
(* SpecServe: the serve phase.  Registration is over; requests follow one  *)
(* another without end.                                                    *)
(***************************************************************************)
MaxServePathLen == 2

ServePaths == {p \in SeqsOver(PathChars, MaxServePathLen) : p # <<>> /\ p[1] = "/"}

\* the registrations of the served tables, in the order they were made
ServeLists ==
    { << <<"GET", <<"/", ":", "a">> >>, <<"GET", <<"/", "*", "b">> >> >>,
      << <<"GET", <<"/", "a">> >>, <<"GET", <<"/", ":", "b">> >>,
         <<"POST", <<"/", "*", "a">> >> >>,
      << <<"GET", <<"/", ":", "a", "/", "b">> >>, <<"GET", <<"/", "*">> >>,
         <<"POST", <<"/", ":", "b">> >> >> }

RECURSIVE Registered(_, _)
\* the router after the first k registrations of list L
Registered(L, k) ==
    IF k = 0 THEN [group |-> [m \in Methods |-> <<>>], routes |-> <<>>, err |-> "ok"]
    ELSE LET before == Registered(L, k - 1)
         IN  routerAdd(before.group, before.routes, L[k][1], L[k][2],
                       Len(before.routes) + 1)

InitServe ==
    \E L \in ServeLists :
        /\ radixGroup = Registered(L, Len(L)).group
        /\ routes = Registered(L, Len(L)).routes
        /\ call = [op |-> "none"]
        /\ ret = 0
        /\ nadds = Len(L)
        /\ constructors = <<>>
        /\ middlewares = <<>>
        /\ errorHandler = 0
        /\ appRoutes = <<>>
        /\ composed = [n |-> 0, result |-> "none"]
        /\ requests = <<>>
        /\ NewEngine

Serve == \E m \in FindMethods, p \in ServePaths : RouterFind(m, p)

SpecServe == InitServe /\ [][Serve]_vars

(***************************************************************************)
(* SpecShared: routes added through the Server (assets, get, post, ...):   *)
(* the caller hands in the handler, and may hand in one it has handed in   *)
(* before, as assets does with handleResource for every path.  Then one    *)
(* request.                                                                *)
(***************************************************************************)
MaxSharedAdds == 2

\* lines 32-39 and 153-158 of the Server class: router.add with a handler
\* of the caller's
SharedAdd ==
    /\ call.op # "find"
    /\ nadds < MaxSharedAdds
    /\ \E r \in Registrations, h \in 1..FreshHandler : RouterAdd(r[1], r[2], h)

SharedFind ==
    /\ call.op # "find"
    /\ \E m \in FindMethods, p \in ServePaths : RouterFind(m, p)

Shared == SharedAdd \/ SharedFind

SpecShared == Init /\ [][Shared]_vars

(***************************************************************************)
(* SpecThrow: registrations some of which throw after Radix.add has        *)
(* already inserted the nodes of the segments before the faulty one.       *)
(***************************************************************************)
MaxThrowAdds == 3

\* well-formed patterns, and patterns whose second segment is an unnamed
\* parameter or has two wildcards
ThrowPatterns ==
    { <<"/", "*">>, <<"/", "a">>, <<"/", ":", "a">>, <<"/", "a", "/", "b">>,
      <<"/", ":", "a", "/", ":">>, <<"/", "a", "/", ":">>,
      <<"/", ":", "a", ":">>, <<"/", "*", "a", "/", ":">> }

AddOrThrow ==
    /\ nadds < MaxThrowAdds
    /\ \E m \in Methods, p \in ThrowPatterns : RouterAdd(m, p, FreshHandler)

SpecThrow == Init /\ [][AddOrThrow]_vars

(***************************************************************************)
(* SpecLookup: one find on a table of deeper patterns, with the request    *)
(* path as the client sent it: a path may hold a ':'.                      *)
(***************************************************************************)
MaxLookupPathLen == 5

LookupChars == {"/", "a", "b", ":"}

LookupPaths ==
    {p \in SeqsOver(LookupChars, MaxLookupPathLen) : p # <<>> /\ p[1] = "/"}

\* the registrations of the tables, in the order they were made
LookupLists ==
    { << <<"GET", <<"/", ":", "a", "/", ":", "a">> >>,
         <<"GET", <<"/", ":", "a", "/", "*">> >> >>,
      << <<"GET", <<"/", ":", "a", "/", "b">> >>,
         <<"GET", <<"/", "*", "b">> >>,
         <<"POST", <<"/", ":", "a", "/", ":", "b">> >> >>,
      << <<"GET", <<"/", ":", "a", "/", ":", "b", "/", "a">> >>,
         <<"GET", <<"/", "a", "/", "b">> >> >> }

InitLookup ==
    \E L \in LookupLists :
        /\ radixGroup = Registered(L, Len(L)).group
        /\ routes = Registered(L, Len(L)).routes
        /\ call = [op |-> "none"]
        /\ ret = 0
        /\ nadds = Len(L)
        /\ constructors = <<>>
        /\ middlewares = <<>>
        /\ errorHandler = 0
        /\ appRoutes = <<>>
        /\ composed = [n |-> 0, result |-> "none"]
        /\ requests = <<>>
        /\ NewEngine

LookupOnce ==
    /\ call.op # "find"
    /\ \E m \in FindMethods, p \in LookupPaths : RouterFind(m, p)

SpecLookup == InitLookup /\ [][LookupOnce]_vars

(***************************************************************************)
(* App.compose, src/app.ts lines 51-124.  A class is its @Controller       *)
(* decorator (the prefix <<"-">> stands for a class without one) and the   *)
(* decorator groups of its methods, one group per method name; the classes *)
(* of the model carry no @Plugin decorator.  A decorator's value is a      *)
(* number (a priority) or a string (a path, a template name); the field    *)
(* the decorator does not use is 0 or the empty string.                    *)
(***************************************************************************)
\* method decorators in the classes of one application
MaxMethods == 3
\* calls of App.compose in one behaviour
MaxComposes == 2

Decorator(name, number, string) ==
    [name |-> name, number |-> number, string |-> string]

\* the decorators of one method
Groups ==
    { <<Decorator("ErrorHandler", 0, <<>>)>>,
      <<Decorator("Middleware", 1, <<>>)>>,
      <<Decorator("Middleware", 2, <<>>)>>,
      <<Decorator("GET", 0, <<"/", "a">>)>>,
      <<Decorator("View", 0, <<"t">>), Decorator("GET", 0, <<"/", ":", "a">>)>> }

Class(controller, methods) == [controller |-> controller, methods |-> methods]

NoController == <<"-">>
Controllers == {NoController, <<>>, <<"/", "a", "/">>}

RECURSIVE Flatten(_)
Flatten(ss) == IF ss = <<>> THEN <<>> ELSE Head(ss) \o Flatten(Tail(ss))

\* lines 53 and 78: the decorators in the order the loops meet them, each
\* with the class and the group it stands in
Decorators(A) ==
    Flatten([k \in 1..Len(A) |->
        Flatten([g \in 1..Len(A[k].methods) |->
            [d \in 1..Len(A[k].methods[g]) |->
                [controller |-> A[k].controller,
                 group |-> A[k].methods[g],
                 decorator |-> A[k].methods[g][d]]]])])

RECURSIVE collapse(_)
\* .replace(/[\/]+/g, "/"): every run of slashes becomes one slash
collapse(s) ==
    IF Len(s) < 2 THEN s
    ELSE IF s[1] = "/" /\ s[2] = "/" THEN collapse(Tail(s))
    ELSE <<s[1]>> \o collapse(Tail(s))

\* lines 109-110: the value of the group's @View decorator, empty for undefined
Template(group) ==
    LET S == {k \in 1..Len(group) : group[k].name = "View"}
    IN  IF S = {} THEN <<>> ELSE group[CHOOSE k \in S : \A q \in S : k <= q].string

RECURSIVE insertByPriority(_, _)
\* m goes after every element whose priority is not greater
insertByPriority(sorted, m) ==
    IF sorted = <<>> THEN <<m>>
    ELSE IF Head(sorted).priority <= m.priority
    THEN <<Head(sorted)>> \o insertByPriority(Tail(sorted), m)
    ELSE <<m>> \o sorted

\* sort leaving the array as it is
unsorted(ms) == ms

RECURSIVE sort(_)
\* line 123: Array.prototype.sort by priority, which is stable
sort(ms) ==
    IF ms = <<>> THEN <<>>
    ELSE insertByPriority(sort(SubSeq(ms, 1, Len(ms) - 1)), ms[Len(ms)])

App(mws, eh, rts, result) ==
    [middlewares |-> mws, errorHandler |-> eh, routes |-> rts, result |-> result]

\* line 80: a bound function is a new object; the functions App holds are
\* numbered as they are stored
Callback(app) ==
    Len(app.middlewares) + Len(app.routes)
        + (IF app.errorHandler # 0 THEN 1 ELSE 0) + 1

\* lines 83-89 with the test of line 84 left out: the last one wins
composeErrorHandlerLast(app, e) == [app EXCEPT !.errorHandler = Callback(app)]

\* lines 83-89
composeErrorHandler(app, e) ==
    IF app.errorHandler # 0 THEN [app EXCEPT !.result = "duplicated"]
    ELSE [app EXCEPT !.errorHandler = Callback(app)]

\* lines 79-118: one decorator of one method
composeDecorator(app, e) ==
    IF e.decorator.name = "ErrorHandler" THEN composeErrorHandler(app, e)
    ELSE IF e.decorator.name = "Middleware"
    THEN [app EXCEPT !.middlewares =
              Append(@, [callback |-> Callback(app),
                         priority |-> e.decorator.number])]
    ELSE IF e.decorator.name = "View" THEN app
    ELSE IF e.controller = NoController THEN [app EXCEPT !.result = "nocontroller"]
    ELSE [app EXCEPT !.routes =
              Append(@, [method |-> e.decorator.name,
                         path |-> collapse(<<"/">> \o e.controller
                                               \o e.decorator.string),
                         callback |-> Callback(app),
                         template |-> Template(e.group)])]

RECURSIVE composeLoop(_, _, _)
\* the loops of lines 53-120 from the k-th decorator on; a throw leaves them
composeLoop(app, ds, k) ==
    IF k > Len(ds) THEN app
    ELSE LET next == composeDecorator(app, ds[k])
         IN  IF next.result # "returned" THEN next
             ELSE composeLoop(next, ds, k + 1)

\* App.compose as a function of App's static fields
compose(A, app) ==
    LET done == composeLoop([app EXCEPT !.result = "returned"], Decorators(A), 1)
    IN  IF done.result # "returned" THEN done
        ELSE [done EXCEPT !.middlewares = sort(@)]

\* the methods decorated so far
DecoratedMethods(A) == Len(Flatten([k \in 1..Len(A) |-> A[k].methods]))

\* App.append, lines 26-46, for the decorators of one more method: of a
\* class met for the first time, or of the class met last
Declare ==
    /\ composed.n = 0
    /\ DecoratedMethods(constructors) < MaxMethods
    /\ \E g \in Groups :
          \/ \E c \in Controllers :
                constructors' = Append(constructors, Class(c, <<g>>))
          \/ /\ constructors # <<>>
             /\ constructors' =
                   [constructors EXCEPT ![Len(constructors)].methods = Append(@, g)]
    /\ UNCHANGED <<routerVars, middlewares, errorHandler, appRoutes, composed,
                   requests, engineVars>>

Compose ==
    /\ composed.n < MaxComposes
    /\ LET app == compose(constructors,
                          App(middlewares, errorHandler, appRoutes, "returned"))
       IN  /\ middlewares' = app.middlewares
           /\ errorHandler' = app.errorHandler
           /\ appRoutes' = app.routes
           /\ composed' = [n |-> composed.n + 1, result |-> app.result]
    /\ UNCHANGED <<routerVars, constructors, requests, engineVars>>

Application == Declare \/ Compose

SpecCompose == Init /\ [][Application]_vars

(***************************************************************************)
(* Server.handleRequest, lines 61-94 of the Server class.  The table holds *)
(* the routes App.compose collected (lines 54-58); handleRequest runs up   *)
(* to an await, and goes on when the awaited call has ended, requests      *)
(* taking turns at the awaits.  A middleware or a handler is called with   *)
(* the Context, which holds the route find returned; what it does is its   *)
(* own, and it returns or throws.                                          *)
(***************************************************************************)
\* requests in one behaviour
MaxRequests == 2

\* the applications served
RequestApps ==
    { <<Class(<<>>, << <<Decorator("Middleware", 2, <<>>)>>,
                       <<Decorator("Middleware", 1, <<>>)>>,
                       <<Decorator("View", 0, <<"t">>),
                         Decorator("GET", 0, <<"/", ":", "a">>)>> >>)>>,
      <<Class(NoController, << <<Decorator("ErrorHandler", 0, <<>>)>>,
                               <<Decorator("Middleware", 1, <<>>)>> >>),
        Class(<<>>, << <<Decorator("GET", 0, <<"/", "a">>)>>,
                       <<Decorator("GET", 0, <<"/", "*", "b">>)>> >>)>>,
      <<Class(<<>>, << <<Decorator("GET", 0, <<"/", ":", "a">>)>> >>)>> }

RequestPaths == {<<"/", "a">>, <<"/", "b">>, <<"/">>}

RECURSIVE initialize(_, _)
\* lines 54-58: the first k routes of App.routes added to the router
initialize(rts, k) ==
    IF k = 0 THEN [group |-> [m \in Methods |-> <<>>], routes |-> <<>>, err |-> "ok"]
    ELSE LET before == initialize(rts, k - 1)
         IN  routerAdd(before.group, before.routes, rts[k].method, rts[k].path,
                       rts[k].callback)

InitRequests ==
    \E A \in RequestApps :
        LET app == compose(A, App(<<>>, 0, <<>>, "returned"))
            table == initialize(app.routes, Len(app.routes))
        IN  /\ radixGroup = table.group
            /\ routes = table.routes
            /\ call = [op |-> "none"]
            /\ ret = 0
            /\ nadds = Len(app.routes)
            /\ constructors = A
            /\ middlewares = app.middlewares
            /\ errorHandler = app.errorHandler
            /\ appRoutes = app.routes
            /\ composed = [n |-> 1, result |-> app.result]
            /\ requests = <<>>
            /\ NewEngine

\* a Context: the request, ctx.route (0 for none), where handleRequest
\* stands, the functions called with this Context so far, and the
\* route.params the route handler found in ctx.route when it was called
Context(method, path) ==
    [method |-> method, path |-> path, route |-> 0, pc |-> "new", k |-> 0,
     ran |-> <<>>, started |-> FALSE, seen |-> {}]

\* lines 83-92: the catch block
catch(ctx) ==
    IF errorHandler # 0
    THEN [ctx EXCEPT !.pc = "errorHandler", !.ran = Append(@, errorHandler)]
    ELSE [ctx EXCEPT !.pc = "done"]

\* line 76: the route handler is called; it finds rs[ctx.route] in ctx.route
callHandler(ctx, rs) ==
    [ctx EXCEPT !.pc = "handler", !.ran = Append(@, rs[ctx.route].callback),
                !.started = TRUE, !.seen = rs[ctx.route].params]

\* lines 72-76: the loop over the middlewares from the k-th on, up to the
\* next await
runFrom(ctx, k, rs) ==
    IF k <= Len(middlewares)
    THEN [ctx EXCEPT !.pc = "middleware", !.k = k,
                     !.ran = Append(@, middlewares[k].callback)]
    ELSE callHandler(ctx, rs)

\* the template of the route: appRoutes and routes hold the same routes
TemplateOf(r) == appRoutes[r].template

\* lines 61-76: a request arrives
Receive(method, path) ==
    /\ Len(requests) < MaxRequests
    /\ LET f == routerFind(radixGroup, routes, method, path)
           ctx == Context(method, path)
       IN  /\ routes' = f.routes
           /\ ret' = f.ret
           /\ call' = [op |-> "find", method |-> method, path |-> path,
                       result |-> IF f.raised THEN "raised" ELSE "returned"]
           /\ requests' = Append(requests,
                  IF f.ret = 0 THEN catch(ctx)
                  ELSE runFrom([ctx EXCEPT !.route = f.ret], 1, f.routes))
    /\ UNCHANGED <<radixGroup, nadds, appVars, engineVars>>

\* lines 73-93: the call request r awaits has ended
Resume(r, threw) ==
    /\ r \in 1..Len(requests)
    /\ requests[r].pc \notin {"done"}
    /\ LET ctx == requests[r]
       IN  requests' = [requests EXCEPT ![r] =
               IF ctx.pc = "errorHandler" \/ ctx.pc = "view"
               THEN [ctx EXCEPT !.pc = "done"]
               ELSE IF threw THEN catch(ctx)
               ELSE IF ctx.pc = "middleware" THEN runFrom(ctx, ctx.k + 1, routes)
               ELSE IF TemplateOf(ctx.route) # <<>>
                    THEN [ctx EXCEPT !.pc = "view"]
                    ELSE [ctx EXCEPT !.pc = "done"]]
    /\ UNCHANGED <<routerVars, appVars, engineVars>>

Handle ==
    \/ \E m \in Methods, p \in RequestPaths : Receive(m, p)
    \/ \E r \in 1..MaxRequests, threw \in BOOLEAN : Resume(r, threw)

SpecRequests == InitRequests /\ [][Handle]_vars

(***************************************************************************)
(* The template engine.  view reads the cache, and on a miss awaits        *)
(* include(file), which awaits the read of the file and then the reads of  *)
(* its partials; only then is the text compiled and the renderer stored.   *)
(* Other view calls run while a call awaits.                               *)
(***************************************************************************)
MaxViews == 3

\* a call of view(file, data): where it stands, the renderer it rendered
\* with (0 for none yet), and whether it found the renderer in the cache
ViewCall(file, pc, render, hit) ==
    [file |-> file, pc |-> pc, render |-> render, hit |-> hit]

\* the renderer a call of compile returns: a function object of its own
FreshRenderer == compiled["index.html"] + compiled["plain.html"] + 1

\* lines 107-113 up to the first await: a hit renders at once, a miss calls
\* include, which starts reading the file (line 117)
View(file) ==
    /\ Len(views) < MaxViews
    /\ views' = Append(views,
          IF cache[file] # 0 THEN ViewCall(file, "done", cache[file], TRUE)
          ELSE ViewCall(file, "file", 0, FALSE))
    /\ UNCHANGED <<routerVars, appVars, requests, cache, loaded, compiled>>

\* lines 116-124 and 110-112: a read that call v awaits has settled.  A
\* failed read rejects the call; the file's text goes on to the reads of
\* its partials; when nothing is left to include, view compiles the text,
\* stores the renderer and renders
Include(v, ok) ==
    /\ v \in 1..Len(views)
    /\ views[v].pc \in {"file", "partial"}
    /\ LET c == views[v]
       IN  IF ~ok
           THEN /\ views' = [views EXCEPT ![v].pc = "rejected"]
                /\ UNCHANGED <<cache, loaded, compiled>>
           ELSE IF c.pc = "file" /\ HasPartial(c.file)
           THEN /\ views' = [views EXCEPT ![v].pc = "partial"]
                /\ loaded' = [loaded EXCEPT ![c.file] = @ + 1]
                /\ UNCHANGED <<cache, compiled>>
           ELSE /\ views' = [views EXCEPT ![v] =
                                 ViewCall(c.file, "done", FreshRenderer, FALSE)]
                /\ loaded' = [loaded EXCEPT
                                 ![c.file] = IF c.pc = "file" THEN @ + 1 ELSE @]
                /\ compiled' = [compiled EXCEPT ![c.file] = @ + 1]
                /\ cache' = [cache EXCEPT ![c.file] = FreshRenderer]
    /\ UNCHANGED <<routerVars, appVars, requests>>

Render ==
    \/ \E file \in Files : View(file)
    \/ \E v \in 1..MaxViews, ok \in BOOLEAN : Include(v, ok)

SpecEngine == Init /\ [][Render]_vars

(***************************************************************************)
(* What a pattern matches, read off the pattern's text alone.              *)
(***************************************************************************)
IsStatic(s) == \A k \in 1..Len(s) : ~isWildcard(s[k])
SlashFree(s) == \A k \in 1..Len(s) : s[k] # "/"

\* The pattern follows the grammar: a marker opens its segment, a parameter
\* has a name, a wildcard is the last segment.
Grammatical(pat) ==
    /\ pat # <<>> /\ pat[1] = "/"
    /\ \A k \in 1..Len(pat) :
          /\ isWildcard(pat[k]) => k > 1 /\ pat[k - 1] = "/"
          /\ pat[k] = ":" => k < Len(pat) /\ pat[k + 1] # "/"
          /\ pat[k] = "*" => SlashFree(SubSeq(pat, k, Len(pat)))

RECURSIVE matchFrom(_, _, _)
\* [ok, params]: path is pat with each :name replaced by a non-empty
\* slash-free run and a trailing *name by the rest of the path
matchFrom(pat, path, params) ==
    IF pat = <<>> THEN [ok |-> path = <<>>, params |-> params]
    ELSE IF pat[1] = "*"
    THEN [ok |-> TRUE,
          params |-> IF Len(pat) > 1 THEN MapSet(params, Tail(pat), path)
                     ELSE params]
    ELSE IF pat[1] = ":"
    THEN LET name == splitFromFirstSlash(Tail(pat))
             val  == splitFromFirstSlash(path)
         IN  IF val.cp = <<>> THEN [ok |-> FALSE, params |-> params]
             ELSE matchFrom(name.np, val.np, MapSet(params, name.cp, val.cp))
    ELSE IF path # <<>> /\ path[1] = pat[1]
         THEN matchFrom(Tail(pat), Tail(path), params)
         ELSE [ok |-> FALSE, params |-> params]

Matches(pat, path) == matchFrom(pat, path, {}).ok
Bindings(pat, path) == matchFrom(pat, path, {}).params

\* the routes registered under a method
RoutesOf(method) == {i \in 1..Len(routes) : routes[i].method = method}

(***************************************************************************)
(* The tree, as claims speak of it.                                        *)
(***************************************************************************)
Parent(T, n) ==
    CHOOSE q \in 1..Len(T) : \E k \in Chars : T[q].children[k] = n

RECURSIVE FullPath(_, _)
\* the labels from the root down to n, concatenated
FullPath(T, n) ==
    IF n = 1 THEN T[1].path ELSE FullPath(T, Parent(T, n)) \o T[n].path

(***************************************************************************)
(* Recursive descent: static child, then parameter child, then wildcard    *)
(* child, backtracking out of every sub-path that reaches no bound         *)
(* handler.                                                                *)
(***************************************************************************)
Miss(params) == [handler |-> NoHandler, params |-> params]

RECURSIVE descend(_, _, _, _)
descend(T, n, p, params) ==
    LET node == T[n]
        ps == bind(node, p, params)
        nx == nextPath(node, p)
    IN  IF nx.k = "fail" THEN Miss(params)
        ELSE IF nx.k = "end"
        THEN IF node.handler # NoHandler
             THEN [handler |-> node.handler, params |-> ps]
             ELSE Miss(params)
        ELSE LET cs == IF nx.np = <<>> THEN 0 ELSE node.children[nx.np[1]]
                 cp == IF nx.np = <<>> THEN 0 ELSE node.children[":"]
                 cw == node.children["*"]
                 rs == IF cs # 0 THEN descend(T, cs, nx.np, ps) ELSE Miss(ps)
                 rp == IF cp # 0 THEN descend(T, cp, nx.np, ps) ELSE Miss(ps)
                 rw == IF cw # 0 THEN descend(T, cw, nx.np, ps) ELSE Miss(ps)
             IN  IF rs.handler # NoHandler THEN rs
                 ELSE IF rp.handler # NoHandler THEN rp
                 ELSE IF rw.handler # NoHandler THEN rw
                 ELSE Miss(params)

\* The last call was a find under a method that has a tree.
Searched == call.op = "find" /\ Lookup(radixGroup, call.method).k = "radix"

(***************************************************************************)
(* C1: on a table built by successful add calls only, a find under M of a  *)
(* path that matches a pattern registered under M returns a route, and the *)
(* route returned carries the handler and the captures of a pattern        *)
(* registered under M that matches the path.                               *)
(***************************************************************************)
C1_FindReturnsMatchingRoute ==
    (/\ Searched
     /\ nadds = Len(routes)
     /\ \E i \in RoutesOf(call.method) :
           Grammatical(routes[i].path) /\ Matches(routes[i].path, call.path))
    => /\ ret # 0
       /\ \E i \in RoutesOf(call.method) :
             /\ Matches(routes[i].path, call.path)
             /\ routes[ret].callback = routes[i].callback
             /\ routes[ret].params = Bindings(routes[i].path, call.path)

(***************************************************************************)
(* C3: Radix.find returns the handler, and with a handler the parameters,  *)
(* that recursive descent returns.                                         *)
(***************************************************************************)
C3_FindIsRecursiveDescent ==
    Searched =>
        LET T == radixGroup[call.method]
            f == RadixFind(T, call.path)
            d == descend(T, 1, call.path, {})
        IN  /\ f.handler = d.handler
            /\ f.handler # NoHandler => f.params = d.params

(***************************************************************************)
(* C2: where a static pattern pre.lit and a parameter pattern pre.:name    *)
(* branch off the same node, find of pre.lit returns the static pattern's  *)
(* route without a binding, and find of pre.s, for a non-empty slash-free  *)
(* s that completes no registered static pattern, returns the parameter    *)
(* pattern's route with name bound to s.                                   *)
(***************************************************************************)
\* node np is the parameter node :name below the node that spells pre, and
\* holds the handler of route ip; route is is static and continues pre
BranchPoint(T, np, is, ip) ==
    LET pre == FullPath(T, Parent(T, np))
    IN  /\ np # 1 /\ First(T[np].path) = ":" /\ Len(T[np].path) > 1
        /\ IsStatic(pre) /\ IsStatic(Tail(T[np].path))
        /\ routes[ip].path = pre \o T[np].path
        /\ T[np].handler = routes[ip].callback
        /\ IsStatic(routes[is].path)
        /\ Len(routes[is].path) > Len(pre)
        /\ SubSeq(routes[is].path, 1, Len(pre)) = pre
        /\ SlashFree(SubSeq(routes[is].path, Len(pre) + 1, Len(routes[is].path)))

StaticRoutePaths(method) ==
    {routes[i].path : i \in {j \in RoutesOf(method) : IsStatic(routes[j].path)}}

C2_StaticBeforeParameter ==
    Searched =>
        LET T == radixGroup[call.method]
        IN  \A np \in 1..Len(T), is \in RoutesOf(call.method),
               ip \in RoutesOf(call.method) :
                BranchPoint(T, np, is, ip) =>
                    LET pre == FullPath(T, Parent(T, np))
                        s   == SubSeq(call.path, Len(pre) + 1, Len(call.path))
                    IN  /\ call.path = routes[is].path =>
                            /\ ret = is
                            /\ routes[ret].params = {}
                        /\ (/\ Len(call.path) > Len(pre)
                            /\ SubSeq(call.path, 1, Len(pre)) = pre
                            /\ SlashFree(s)
                            /\ call.path \notin StaticRoutePaths(call.method))
                           => /\ ret = ip
                              /\ routes[ret].params = {<<Tail(T[np].path), s>>}

\* both halves of C2 happen: the static pattern found, and the parameter
\* pattern found for another segment, with the parameter registered first
C2_Witness ==
    /\ Searched
    /\ Len(routes) = 2
    /\ RoutesOf(call.method) = {1, 2}
    /\ Len(radixGroup[call.method]) >= 2
    /\ BranchPoint(radixGroup[call.method], 2, 2, 1)
    /\ call.path # routes[2].path
    /\ ret = 1
    /\ routes[1].params # {}

(***************************************************************************)
(* C4: for a registered pattern pre.*name with a static prefix pre and a   *)
(* path pre.rest: when find returns the pattern's route, its parameters    *)
(* bind name to the whole of rest, slashes included, and bind nothing when *)
(* the wildcard has no name; and find does return that route when the      *)
(* wildcard is the only child of the node that spells pre and rest is not  *)
(* empty or that node has no handler.                                      *)
(***************************************************************************)
WildcardRoute(T, nw, iw) ==
    /\ nw # 1 /\ First(T[nw].path) = "*"
    /\ IsStatic(Tail(T[nw].path))
    /\ IsStatic(FullPath(T, Parent(T, nw)))
    /\ routes[iw].path = FullPath(T, Parent(T, nw)) \o T[nw].path
    /\ T[nw].handler = routes[iw].callback

OnlyChild(T, n) == ChildrenSize(T[Parent(T, n)]) = 1

Earlier(method) ==
    {i \in RoutesOf(method) : routes[i].callback # call.callback}

Bound(callback) ==
    \/ \E i \in 1..Len(routes) : routes[i].callback = callback
    \/ \E m \in Methods : \E n \in 1..Len(radixGroup[m]) :
          radixGroup[m][n].handler = callback

C5_SecondAddIsDuplicate ==
    call.op = "add" =>
        /\ (\E i \in Earlier(call.method) : routes[i].path = call.path)
           => call.result = "duplicate" /\ ~Bound(call.callback)
        /\ (/\ \A i \in Earlier(call.method) : routes[i].path # call.path
            /\ \E m \in Methods \ {call.method} :
                  \E i \in Earlier(m) : routes[i].path = call.path)
           => call.result = "ok" /\ Bound(call.callback)

\* the third add repeats the first, a pattern with a marker, after another
\* pattern of the same method was registered in between
C5_Witness ==
    /\ call.op = "add" /\ call.result = "duplicate"
    /\ nadds = 3 /\ Len(routes) = 2
    /\ routes[1].path = call.path /\ ~IsStatic(call.path)
    /\ routes[1].method = call.method /\ routes[2].method = call.method

(***************************************************************************)
(* The defects of a pattern, read off its text: a segment with more than   *)
(* one marker, and a ':' that closes its segment.                          *)
(***************************************************************************)
\* the segment of pat that holds position k: from after the slash before k
\* to before the slash after k
SegStart(pat, k) ==
    LET S == {q \in 1..k : pat[q] = "/"}
    IN  IF S = {} THEN 1 ELSE (CHOOSE q \in S : \A r \in S : r <= q) + 1
SegEnd(pat, k) ==
    LET S == {q \in k..Len(pat) : pat[q] = "/"}
    IN  IF S = {} THEN Len(pat) ELSE (CHOOSE q \in S : \A r \in S : q <= r) - 1

MarkersIn(pat, a, b) == {q \in a..b : isWildcard(pat[q])}

\* positions of a marker whose segment holds another marker
ConflictAt(pat) ==
    {k \in 1..Len(pat) :
        /\ isWildcard(pat[k]) /\ pat[k] # "/"
        /\ Cardinality(MarkersIn(pat, SegStart(pat, k), SegEnd(pat, k))) > 1}

\* positions of a ':' followed by a slash or by the end of the pattern
EmptyNameAt(pat) ==
    {k \in 1..Len(pat) : pat[k] = ":" /\ (k = Len(pat) \/ pat[k + 1] = "/")}

Lowest(S) == CHOOSE k \in S : \A q \in S : k <= q

Failed == call.result # "ok" /\ ~Bound(call.callback)

(***************************************************************************)
(* C6 as stated: every pattern with a ':' followed by a slash or by the    *)
(* end fails with the empty-parameter-name error.                          *)
(***************************************************************************)
C6_EmptyNameAlways ==
    (call.op = "add" /\ EmptyNameAt(call.path) # {})
    => call.result = "emptyname" /\ ~Bound(call.callback)

(***************************************************************************)
(* C6, amended: add fails and binds nothing for every pattern with a ':'   *)
(* followed by a slash or by the end; the error is the empty-parameter-    *)
(* name error when no segment up to and including the one of the first     *)
(* such ':' holds more than one marker, and the wildcard-conflict error    *)
(* otherwise.                                                              *)
(***************************************************************************)
C6_EmptyNameFails ==
    (call.op = "add" /\ EmptyNameAt(call.path) # {})
    => /\ Failed
       /\ LET k == Lowest(EmptyNameAt(call.path))
              before == {q \in ConflictAt(call.path) : q <= SegEnd(call.path, k)}
          IN  call.result = IF before = {} THEN "emptyname" ELSE "conflict"

\* an empty name in the second segment of a pattern
C6_Witness ==
    /\ call.op = "add" /\ call.result = "emptyname"
    /\ \E k \in EmptyNameAt(call.path) : SegStart(call.path, k) > 2

(***************************************************************************)
(* C7 as stated: every pattern with two markers in one segment fails with  *)
(* the wildcard-conflict error.                                            *)
(***************************************************************************)
C7_ConflictAlways ==
    (call.op = "add" /\ ConflictAt(call.path) # {})
    => call.result = "conflict" /\ ~Bound(call.callback)

(***************************************************************************)
(* C7, amended: add fails and binds nothing for every pattern with more    *)
(* than one marker in a segment; the error is the wildcard-conflict error  *)
(* unless an earlier segment holds a single ':' that closes it, and then   *)
(* it is the empty-parameter-name error.                                   *)
(***************************************************************************)
C7_ConflictFails ==
    (call.op = "add" /\ ConflictAt(call.path) # {})
    => /\ Failed
       /\ LET k == Lowest(ConflictAt(call.path))
              before == {q \in EmptyNameAt(call.path) : q < SegStart(call.path, k)}
          IN  call.result = IF before = {} THEN "conflict" ELSE "emptyname"

\* a conflict in the second segment of a pattern
C7_Witness ==
    /\ call.op = "add" /\ call.result = "conflict"
    /\ \E k \in ConflictAt(call.path) : SegStart(call.path, k) > 2

(***************************************************************************)
(* C8: find never raises, whatever the method and the path.                *)
(***************************************************************************)
C8_FindNeverRaises == call.op = "find" => call.result = "returned"

(***************************************************************************)
(* C9: an add under one method changes the result of no find under any     *)
(* other method, and a route that find returns was registered under the    *)
(* method find was called with.                                            *)
(***************************************************************************)
\* what find(method, path) would answer in the state (group, rs)
FindResult(group, rs, method, path) ==
    LET f == routerFind(group, rs, method, path)
    IN  [raised |-> f.raised, ret |-> f.ret,
         params |-> IF f.ret = 0 THEN {} ELSE f.routes[f.ret].params]

CapturedFrom(T, e, path) ==
    \E n \in 1..Len(T), k \in 0..Len(path) :
        bind(T[n], SliceFrom(path, k), {}) = {e}

C10_ParamsAreOfThisCall ==
    (Searched /\ ret # 0) =>
        \A e \in routes[ret].params :
            CapturedFrom(radixGroup[call.method], e, call.path)

\* a find has returned a route with bindings after an earlier find left
\* bindings in another route
C10_Witness ==
    /\ Searched
    /\ ret # 0
    /\ routes[ret].params # {}
    /\ \E i \in 1..Len(routes) : i # ret /\ routes[i].params # {}

(***************************************************************************)
(* The decorators of an application, as claims speak of them.              *)
(***************************************************************************)
ErrorHandlersOf(ds) == {k \in 1..Len(ds) : ds[k].decorator.name = "ErrorHandler"}

\* route decorators in a class without @Controller
Uncontrolled(ds) ==
    {k \in 1..Len(ds) :
        /\ ds[k].decorator.name \notin {"ErrorHandler", "Middleware", "View"}
        /\ ds[k].controller = NoController}

\* the functions the decorators before the k-th have made App store
StoredBefore(ds, k) ==
    Cardinality({q \in 1..(k - 1) : ds[q].decorator.name \notin {"ErrorHandler", "View"}})

(***************************************************************************)
(* C13: a call of App.compose that meets an @ErrorHandler method while an  *)
(* error handler is installed throws "Duplicated error handler", and the   *)
(* handler installed first is the installed one after the call.            *)
(***************************************************************************)
C13_ErrorHandlerOnlyOnce ==
    [][composed'.n # composed.n =>
        LET ds == Decorators(constructors)
            E  == ErrorHandlersOf(ds)
            e1 == Lowest(E)
            e2 == Lowest(E \ {e1})
            Met(k) == \A q \in Uncontrolled(ds) : q > k
        IN  /\ (errorHandler = 0 /\ Cardinality(E) >= 2 /\ Met(e2)) =>
                /\ composed'.result = "duplicated"
                /\ errorHandler' = Len(middlewares) + Len(appRoutes)
                                       + StoredBefore(ds, e1) + 1
            /\ (errorHandler # 0 /\ E # {} /\ Met(e1)) =>
                /\ composed'.result = "duplicated"
                /\ errorHandler' = errorHandler]_vars

\* the first call of compose has thrown at the second of two @ErrorHandler
\* methods, a middleware declared between them
C13_Witness ==
    /\ composed.n = 1
    /\ composed.result = "duplicated"
    /\ errorHandler # 0
    /\ Len(middlewares) = 1
    /\ middlewares[1].callback > errorHandler

(***************************************************************************)
(* C11: the route handler of every request finds, when it is called, the   *)
(* parameters captured from the path of its own request, also when the     *)
(* find of a later request for the same route ran while the request was    *)
(* waiting for a middleware.                                               *)
(***************************************************************************)
C11_HandlerSeesOwnParams ==
    \A r \in 1..Len(requests) :
        requests[r].started =>
            requests[r].seen
                = RadixFind(radixGroup[requests[r].method], requests[r].path).params

(***************************************************************************)
(* C14: for every request that matched a route, the functions called are   *)
(* middlewares in ascending order of priority and then, after every        *)
(* registered middleware has been called and has ended, the route handler. *)
(***************************************************************************)
\* the priority of the middleware whose function is c
PriorityOf(c) ==
    LET k == CHOOSE q \in 1..Len(middlewares) : middlewares[q].callback = c
    IN  middlewares[k].priority

IsMiddleware(c) == \E q \in 1..Len(middlewares) : middlewares[q].callback = c

\* the priorities the @Middleware decorators of the application declare
DeclaredPriorities ==
    LET ds == Decorators(constructors)
    IN  {ds[k].decorator.number :
            k \in {q \in 1..Len(ds) : ds[q].decorator.name = "Middleware"}}

C14_MiddlewaresInPriorityOrder ==
    \A r \in 1..Len(requests) :
        LET ctx == requests[r]
            ran == ctx.ran
        IN  ctx.route # 0 =>
              /\ \A i, j \in 1..Len(ran) :
                    (i < j /\ IsMiddleware(ran[i]) /\ IsMiddleware(ran[j]))
                    => PriorityOf(ran[i]) <= PriorityOf(ran[j])
              /\ \A j \in 1..Len(ran) :
                    ran[j] = routes[ctx.route].callback =>
                        /\ ctx.started
                        /\ \A q \in 1..Len(middlewares) :
                              \E i \in 1..(j - 1) : ran[i] = middlewares[q].callback
                        /\ {PriorityOf(ran[i]) : i \in 1..(j - 1)} = DeclaredPriorities

\* a request has run the middleware of priority 1, declared second, then
\* the one of priority 2, declared first, and then its route handler
C14_Witness ==
    \E r \in 1..Len(requests) :
        /\ requests[r].started
        /\ Len(requests[r].ran) = 3
        /\ IsMiddleware(requests[r].ran[1]) /\ IsMiddleware(requests[r].ran[2])
        /\ PriorityOf(requests[r].ran[1]) < PriorityOf(requests[r].ran[2])
        /\ requests[r].ran[1] > requests[r].ran[2]

(***************************************************************************)
(* C12: when every add of a registration phase has succeeded, the same     *)
(* routes added in any other order give a table on which find returns,     *)
(* for every method and path, the route with the same handler and the      *)
(* same parameters, or nothing where it returns nothing.                   *)
(***************************************************************************)
\* the orders of n calls
Orders(n) ==
    {f \in [1..n -> 1..n] : \A i, j \in 1..n : f[i] = f[j] => i = j}

RECURSIVE RegisteredIn(_, _, _)
\* the router after the routes rs[f[1]], ..., rs[f[k]] were added in that order
RegisteredIn(rs, f, k) ==
    IF k = 0 THEN [group |-> [m \in Methods |-> <<>>], routes |-> <<>>, err |-> "ok"]
    ELSE LET before == RegisteredIn(rs, f, k - 1)
         IN  routerAdd(before.group, before.routes, rs[f[k]].method,
                       rs[f[k]].path, rs[f[k]].callback)

\* what find answers: the handler of the route returned (0 for nothing)
\* and its parameters
Answer(group, rs, method, path) ==
    LET f == routerFind(group, rs, method, path)
    IN  IF f.ret = 0 THEN [handler |-> NoHandler, params |-> {}]
        ELSE [handler |-> f.routes[f.ret].callback,
              params |-> f.routes[f.ret].params]

C12_OrderIndependent ==
    (call.op = "add" /\ nadds = Len(routes)) =>
        LET here == [m \in Methods, p \in Paths |->
                        Answer(radixGroup, routes, m, p)]
        IN  \A f \in Orders(Len(routes)) \ {[k \in 1..Len(routes) |-> k]} :
                LET other == RegisteredIn(routes, f, Len(routes))
                IN  /\ Len(other.routes) = Len(routes)
                    /\ \A m \in Methods, p \in Paths :
                          Answer(other.group, other.routes, m, p) = here[m, p]

\* two routes of one method, the second a proper prefix of the first, so
\* that the other order builds the nodes in another order
C12_Witness ==
    /\ call.op = "add" /\ nadds = 2 /\ Len(routes) = 2
    /\ routes[1].method = routes[2].method
    /\ Len(routes[2].path) < Len(routes[1].path)
    /\ SubSeq(routes[1].path, 1, Len(routes[2].path)) = routes[2].path
    /\ \E f \in Orders(2) : RegisteredIn(routes, f, 2).group # radixGroup

(***************************************************************************)
(* The nodes of the trees, as claims speak of them.                        *)
(***************************************************************************)
\* the methods that have a tree
Trees == {m \in Methods : radixGroup[m] # <<>>}

\* the nodes of T stored under key k of their parent
ChildrenUnder(T, k) == {T[n].children[k] : n \in 1..Len(T)} \ {0}

(***************************************************************************)
(* C15: in every tree, a node whose label starts with '*' has no children. *)
(***************************************************************************)
C15_WildcardIsLeaf ==
    \A m \in Trees : \A n \in 1..Len(radixGroup[m]) :
        First(radixGroup[m][n].path) = "*" => ChildrenSize(radixGroup[m][n]) = 0

(***************************************************************************)
(* C16: in every tree, the label of a node stored under the ':' key is     *)
(* ':' followed by a non-empty name.                                       *)
(***************************************************************************)
C16_ParameterIsNamed ==
    \A m \in Trees : \A n \in ChildrenUnder(radixGroup[m], ":") :
        /\ First(radixGroup[m][n].path) = ":"
        /\ Len(radixGroup[m][n].path) > 1

(***************************************************************************)
(* The bindings of one branch of a tree.                                   *)
(***************************************************************************)
RECURSIVE Ancestors(_, _)
\* the nodes from the root down to n
Ancestors(T, n) ==
    IF n = 1 THEN <<1>> ELSE Append(Ancestors(T, Parent(T, n)), n)

RECURSIVE BoundAlong(_, _, _, _, _)
\* the bindings the nodes chain[k], chain[k + 1], ... make for the rest p
\* of the path, each node handing on what it leaves of p
BoundAlong(T, chain, k, p, params) ==
    IF k > Len(chain) THEN params
    ELSE BoundAlong(T, chain, k + 1, nextPath(T[chain[k]], p).np,
                    bind(T[chain[k]], p, params))

\* the node the last find ended at
Terminal ==
    LET f == RadixFind(radixGroup[call.method], call.path)
    IN  f.visited[Len(f.visited)]

(***************************************************************************)
(* C17: the parameters of a route that find returns are the bindings made  *)
(* by the nodes from the root down to the node the search ended at, each   *)
(* for the part of the path it stands for, and no other: none of a branch  *)
(* that failed, and none missing.                                          *)
(***************************************************************************)
C17_BacktrackingRestoresBindings ==
    (Searched /\ ret # 0) =>
        LET T == radixGroup[call.method]
        IN  routes[ret].params
                = BoundAlong(T, Ancestors(T, Terminal), 1, call.path, {})

(***************************************************************************)
(* C18: splitting a node of a tree after a proper prefix of its label      *)
(* adds one node, the new child, which gets the rest of the label, the     *)
(* children and the handler of the node; the node keeps the prefix as its  *)
(* label, has the new child as its only child and has no handler; no       *)
(* other node changes.                                                     *)
(***************************************************************************)
C18_SplitMovesSuffixDown ==
    \A m \in Trees :
        LET T == radixGroup[m]
        IN  \A n \in 1..Len(T) : \A i \in 0..Len(T[n].path) :
                i < Len(T[n].path) =>
                    LET S == split(T, n, Slice(T[n].path, 0, i), i)
                        c == Len(T) + 1
                    IN  /\ Len(S) = c
                        /\ S[c].path = SliceFrom(T[n].path, i)
                        /\ S[c].children = T[n].children
                        /\ S[c].handler = T[n].handler
                        /\ S[n].path = Slice(T[n].path, 0, i)
                        /\ {k \in Chars : S[n].children[k] # 0} = {S[c].path[1]}
                        /\ S[n].children[S[c].path[1]] = c
                        /\ S[n].handler = NoHandler
                        /\ \A q \in 1..Len(T) : q # n => S[q] = T[q]

\* the third add has split the root, which had two children, after a
\* proper prefix of its label, and has bound its handler to the root
C18_Witness ==
    /\ call.op = "add" /\ call.result = "ok"
    /\ nadds = 3 /\ Len(routes) = 3
    /\ \A k \in 1..3 : routes[k].method = call.method
    /\ LET T0 == RegisteredIn(routes, [k \in 1..3 |-> k], 2).group[call.method]
           i  == Len(routes[3].path)
       IN  /\ i < Len(T0[1].path)
           /\ ChildrenSize(T0[1]) = 2
           /\ radixGroup[call.method]
                 = [split(T0, 1, routes[3].path, i)
                        EXCEPT ![1].handler = routes[3].callback]

(***************************************************************************)
(* C19: a call of find changes no tree, creates no tree, and leaves the    *)
(* route list and every route in it as they were.                          *)
(***************************************************************************)
C19_FindIsReadOnly ==
    [][(call'.op = "find" /\ nadds' = nadds) =>
           /\ radixGroup' = radixGroup
           /\ routes' = routes]_vars

(***************************************************************************)
(* C20: the loop of Radix.find ends, and it has entered no node of the     *)
(* tree more than once.                                                    *)
(***************************************************************************)
C20_EachNodeAtMostOnce ==
    Searched =>
        LET visited == RadixFind(radixGroup[call.method], call.path).visited
        IN  \A i, j \in 1..Len(visited) : visited[i] = visited[j] => i = j

(***************************************************************************)
(* C21: a route that find(M, path) returns was registered under M, and     *)
(* its pattern is the pattern that matched: the one spelled by the labels  *)
(* from the root down to the node the search ended at.                     *)
(***************************************************************************)
C21_ReturnsTheMatchedEntry ==
    (Searched /\ ret # 0) =>
        /\ routes[ret].method = call.method
        /\ routes[ret].path = FullPath(radixGroup[call.method], Terminal)

(***************************************************************************)
(* C22: an add that throws appends no route, and every find answers after  *)
(* it what it answered before it.                                          *)
(***************************************************************************)
C22_FailedAddChangesNothing ==
    [][(call'.op = "add" /\ nadds' = nadds + 1 /\ call'.result # "ok") =>
          /\ routes' = routes
          /\ \A m \in FindMethods, p \in Paths :
                FindResult(radixGroup', routes', m, p)
                    = FindResult(radixGroup, routes, m, p)]_vars

(***************************************************************************)
(* C23: after an add that succeeds under M, every path for which           *)
(* find(M, path) returned a handler still gets a handler, and the same     *)
(* handler with the same parameters unless the added pattern matches the   *)
(* path.                                                                   *)
(***************************************************************************)
C23_AddKeepsEarlierMatches ==
    [][(call'.op = "add" /\ nadds' = nadds + 1 /\ call'.result = "ok") =>
          \A p \in Paths :
              LET before == Answer(radixGroup, routes, call'.method, p)
                  after  == Answer(radixGroup', routes', call'.method, p)
              IN  before.handler # NoHandler =>
                      /\ after.handler # NoHandler
                      /\ ~Matches(call'.path, p) => after = before]_vars

(***************************************************************************)
(* C24: whatever the interleaving of the view calls, a template file is    *)
(* read and compiled at most once, and a call that finds the file in the   *)
(* cache renders with the renderer stored there.                           *)
(***************************************************************************)
C24_LoadedAndCompiledOnce ==
    /\ \A f \in Files : loaded[f] <= 1 /\ compiled[f] <= 1
    /\ \A v \in 1..Len(views) : views[v].hit => views[v].render # 0

====
